---------------------------- MODULE Spec2Model ----------------------------
(***************************************************************************)
(* A model of kyria_oled: the run-length codec (compress, uncompress,      *)
(* uncompress2), the byte-diff transform (diff, undiff), the bit-plane     *)
(* packer (Frame::new, Frame::output), the base-frame selectors            *)
(* (generate_base_frame, find_suboptimal_base_frame,                       *)
(* Frame::create_from_multiple_frame) and the generate_c pipeline.         *)
(*                                                                         *)
(* Every function of the crate is pure, so each one is an operator that    *)
(* computes what the Rust code computes, and each specification draws the  *)
(* function's inputs in its initial states and applies the functions in    *)
(* its actions.  A Rust panic is the value of a result record whose        *)
(* status is "panic".  Sequences are 1-based here and 0-based in Rust.     *)
(***************************************************************************)
EXTENDS Integers, Sequences, FiniteSets

VARIABLES
    pc,        \* the position of the calling program
    data,      \* codec: the byte sequence handed to compress
    stream,    \* codec: the compressed stream handed to the decoders
    dec,       \* codec: the result of uncompress(stream)
    outbuf,    \* codec: the caller's output buffer before uncompress2
    dec2,      \* codec: the result of uncompress2(stream, outbuf)
    base,      \* diff: the reference array
    other,     \* diff: the target array
    delta,     \* diff: the result of diff(base, other)
    restored,  \* diff: the result of undoing the diff
    matrix,    \* packer: the pixel matrix of a Frame (rows of 0/1)
    packed,    \* packer: the result of Frame::output
    frame2,    \* packer: the result of Frame::new on the packed bytes
    given,     \* packer: a width, a height and a packed array for Frame::new
    built,     \* packer: the result of Frame::new on the given array
    repacked,  \* packer: the result of Frame::output on the frame built
    corpus,    \* selectors: the frame corpus
    chosen,    \* selectors: the result of generate_base_frame
    vote1,     \* selectors: the first run of find_suboptimal_base_frame
    vote2,     \* selectors: the second run of find_suboptimal_base_frame
    frames,    \* pipeline: the pixel matrices given to generate_c
    gen,       \* pipeline: what generate_c emitted
    shown      \* pipeline: the frames decoded back from what was emitted

codecVars == <<data, stream, dec, outbuf, dec2>>
diffVars == <<base, other, delta, restored>>
frameVars == <<matrix, packed, frame2, given, built, repacked>>
selVars == <<corpus, chosen, vote1, vote2>>
pipeVars == <<frames, gen, shown>>
vars == <<pc, codecVars, diffVars, frameVars, selVars, pipeVars>>

\* A result that has not been computed yet.
None == [status |-> "none"]

Ok(v) == [status |-> "ok", out |-> v]

IsOk(r) == r.status = "ok"

IsPanic(r) == r.status = "panic"

\* The values of the variables a specification does not use.
IdleCodec == data = <<>> /\ stream = <<>> /\ dec = None /\ outbuf = <<>> /\ dec2 = None

IdleDiff == base = <<>> /\ other = <<>> /\ delta = None /\ restored = None

IdleUnpack == given = None /\ built = None /\ repacked = None

IdleFrame == matrix = <<>> /\ packed = None /\ frame2 = None /\ IdleUnpack

IdleSel == corpus = <<>> /\ chosen = None /\ vote1 = None /\ vote2 = None

IdlePipe == frames = <<>> /\ gen = None /\ shown = <<>>

(***************************************************************************)
(* u8 arithmetic                                                           *)
(***************************************************************************)
Byte == 0..255

\* u8::saturating_sub, where the code calls wrapping_sub.
WrappingSubSaturating(a, b) == IF a >= b THEN a - b ELSE 0

\* u8::wrapping_sub: the borrow out of bit 7 is dropped.
WrappingSub(a, b) == IF a >= b THEN a - b ELSE a + 256 - b

\* byte >> 7
ModeBit(byte) == byte \div 128

\* byte & 0b0111_1111
CountBits(byte) == byte % 128

\* x | 0b1000_0000
SetModeBit(x) == IF x \div 128 = 1 THEN x ELSE x + 128

\* usize as u8
AsU8(n) == n % 256

(***************************************************************************)
(* compress (src/src/lib.rs)                                               *)
(***************************************************************************)
\* 0b0111_1110, the bound of the first pass's take_while
RunCap == 126

\* 0b0111_1110, the bound of the second pass's take_while
LitCap == 126

\* The predicate below with `i <= ..` for `i < ..`: a count one too high.
RunContinuesOffByOne(i, b, first) == i <= RunCap /\ b = first

\* The first pass's take_while predicate on the i-th following byte b.
RunContinues(i, b, first) == i < RunCap /\ b = first

\* take_while(..).count() on a clone of the iterator standing after
\* data[pos]: how many of the following bytes repeat data[pos].  The count
\* is the first k at which the bytes end or the predicate fails.
CountRun(bytes, pos) ==
    LET avail == Len(bytes) - pos
        Stops(k) == k = avail \/ ~RunContinues(k, bytes[pos + k + 1], bytes[pos])
    IN  CHOOSE k \in 0..avail : Stops(k) /\ \A j \in 0..(k - 1) : ~Stops(j)

\* The body of the first loop, `while let Some(&base) = iter.next()`, on
\* the loop's state: pos, the index of the byte iter.next() yields, and
\* inter, the intermediate vector of (count, byte) pairs, flat.  It does
\* nothing once the iterator is exhausted.  nb <= RunCap, so nb as u8 + 1
\* does not overflow.
FirstPassBody(bytes, st) ==
    IF st.pos > Len(bytes)
    THEN st
    ELSE LET nb == CountRun(bytes, st.pos)
         IN  [pos |-> st.pos + nb + 1,
              inter |-> st.inter \o <<AsU8(nb) + 1, bytes[st.pos]>>]

\* n iterations of the first loop.
RECURSIVE FirstPassLoop(_, _, _)
FirstPassLoop(bytes, st, n) ==
    IF n = 0 \/ st.pos > Len(bytes)
    THEN st
    ELSE IF n = 1
         THEN FirstPassBody(bytes, st)
         ELSE FirstPassLoop(bytes, FirstPassLoop(bytes, st, n \div 2), n - n \div 2)

\* The first loop: it consumes a byte or more per iteration, so it ends
\* within Len(bytes) iterations.
FirstPass(bytes) == FirstPassLoop(bytes, [pos |-> 1, inter |-> <<>>], Len(bytes)).inter

\* intermediate.chunks(2): the number of chunks, and the c-th chunk's bytes.
NChunks(inter) == (Len(inter) + 1) \div 2

ChunkCtl(inter, c) == inter[2 * c - 1]

ChunkVal(inter, c) == inter[2 * c]

\* The predicate below with `i <= ..` for `i < ..`: a count one too high.
SingleContinuesOffByOne(i, ctl) == i <= LitCap /\ ctl = 1

\* The second pass's take_while predicate on the i-th following chunk.
SingleContinues(i, ctl) == i < LitCap /\ ctl = 1

\* How many of the chunks after chunk c also have a control byte of 1.
CountSingles(inter, c) ==
    LET avail == NChunks(inter) - c
        Stops(k) == k = avail \/ ~SingleContinues(k, ChunkCtl(inter, c + k + 1))
    IN  CHOOSE k \in 0..avail : Stops(k) /\ \A j \in 0..(k - 1) : ~Stops(j)

\* The record below with a lone chunk of count 1 left in repeat mode.
LiteralRecordUnlessLone(inter, c, nb) ==
    IF nb = 0
    THEN <<ChunkCtl(inter, c), ChunkVal(inter, c)>>
    ELSE <<SetModeBit(AsU8(nb + 1)), ChunkVal(inter, c)>>
             \o [k \in 1..nb |-> ChunkVal(inter, c + k)]

\* What the second loop pushes for chunk c when its control byte is 1:
\* a literal-mode control byte, the chunk's byte and the nb bytes after it.
LiteralRecord(inter, c, nb) ==
    <<SetModeBit(AsU8(nb + 1)), ChunkVal(inter, c)>>
        \o [k \in 1..nb |-> ChunkVal(inter, c + k)]

\* What it pushes otherwise: the chunk unchanged.
RepeatRecord(inter, c) == <<ChunkCtl(inter, c), ChunkVal(inter, c)>>

\* The body of the second loop, `while let Some(base) = intermediate.next()`,
\* on the loop's state: c, the chunk intermediate.next() yields, and res.
SecondPassBody(inter, st) ==
    IF st.c > NChunks(inter)
    THEN st
    ELSE IF ChunkCtl(inter, st.c) = 1
         THEN LET nb == CountSingles(inter, st.c)
              IN  [c |-> st.c + nb + 1, res |-> st.res \o LiteralRecord(inter, st.c, nb)]
         ELSE [c |-> st.c + 1, res |-> st.res \o RepeatRecord(inter, st.c)]

\* n iterations of the second loop.
RECURSIVE SecondPassLoop(_, _, _)
SecondPassLoop(inter, st, n) ==
    IF n = 0 \/ st.c > NChunks(inter)
    THEN st
    ELSE IF n = 1
         THEN SecondPassBody(inter, st)
         ELSE SecondPassLoop(inter, SecondPassLoop(inter, st, n \div 2), n - n \div 2)

SecondPass(inter) == SecondPassLoop(inter, [c |-> 1, res |-> <<>>], NChunks(inter)).res

compress(bytes) == SecondPass(FirstPass(bytes))

(***************************************************************************)
(* uncompress and uncompress2 (src/src/lib.rs)                             *)
(***************************************************************************)
\* A decoder's panic: `at` is the index of the control byte of the record
\* it was decoding, `cause` the slice whose bound was exceeded, `maxRead`
\* the highest index of the input it read, `out` the output so far.
DecodePanic(at, cause, maxRead, out) ==
    [status |-> "panic", at |-> at, cause |-> cause, maxRead |-> maxRead, out |-> out]

DecodeOk(out, written, maxRead) ==
    [status |-> "ok", out |-> out, written |-> written, maxRead |-> maxRead]

\* A decoder that does not check: unwrap_or and get_unchecked.
InBoundsUnchecked(bytes, i) == TRUE

\* Whether bytes[i] exists: the Some/None of iter.next() in uncompress and
\* the bounds check of data[i] in uncompress2.
InBounds(bytes, i) == i <= Len(bytes)

\* The byte a read of bytes[i] yields.  A read past the end, which the
\* bounds checks above rule out, would yield what lies behind the buffer.
ReadByte(bytes, i) == IF i <= Len(bytes) THEN bytes[i] ELSE 0

\* A decoder in its loop: i is the index of the next control byte, out the
\* output so far, written the number of bytes of it written, maxRead the
\* highest index read.
Decoding(i, out, written, maxRead) ==
    [status |-> "run", i |-> i, out |-> out, written |-> written, maxRead |-> maxRead]

\* The body of uncompress's loop, `while let Some(byte) = iter.next()`.
UncompressBody(bytes, st) ==
    IF st.status # "run" \/ st.i > Len(bytes)
    THEN st
    ELSE LET i == st.i
             n == CountBits(bytes[i])
         IN  IF ModeBit(bytes[i]) = 1
             THEN \* (0..n).for_each(|_| res.push(iter.next().unwrap()))
                  IF \A k \in 1..n : InBounds(bytes, i + k)
                  THEN Decoding(i + n + 1,
                                st.out \o [k \in 1..n |-> ReadByte(bytes, i + k)],
                                st.written + n, i + n)
                  ELSE DecodePanic(i, "input", Len(bytes), st.out)
             ELSE \* let next = iter.next().unwrap()
                  IF InBounds(bytes, i + 1)
                  THEN Decoding(i + 2,
                                st.out \o [k \in 1..n |-> ReadByte(bytes, i + 1)],
                                st.written + n, i + 1)
                  ELSE DecodePanic(i, "input", i, st.out)

\* n iterations of uncompress's loop.
RECURSIVE UncompressLoop(_, _, _)
UncompressLoop(bytes, st, n) ==
    IF n = 0 \/ st.status # "run" \/ st.i > Len(bytes)
    THEN st
    ELSE IF n = 1
         THEN UncompressBody(bytes, st)
         ELSE UncompressLoop(bytes, UncompressLoop(bytes, st, n \div 2), n - n \div 2)

\* What a decoder returns when its loop has ended.
Returned(st) ==
    IF st.status = "run" THEN DecodeOk(st.out, st.written, st.maxRead) ELSE st

\* The loop consumes a byte or more per iteration.
uncompress(bytes) ==
    Returned(UncompressLoop(bytes, Decoding(1, <<>>, 0, 0), Len(bytes)))

\* uncompress2's literal branch,
\*     for _ in 0..n { i += 1; output[pos] = data[i]; pos += 1 }
\* with the control byte at bytes[rec]: the iterations that panic.  In an
\* assignment the value data[i] is evaluated before the place output[pos].
LiteralFails(bytes, rec, n, pos, out) ==
    {k \in 1..n : ~InBounds(bytes, rec + k) \/ pos + k > Len(out)}

\* uncompress2's repeat branch, for _ in 0..n { output[pos] = next; pos += 1 }
RepeatFails(n, pos, out) == {k \in 1..n : pos + k > Len(out)}

First(S) == CHOOSE k \in S : \A j \in S : k <= j

\* The buffer below without `current_pos_in_output += 1` from one record to
\* the next: every record is written from the start of the buffer.
WrittenFromStart(out, pos, vals) ==
    [j \in 1..Len(out) |-> IF j <= Len(vals) THEN vals[j] ELSE out[j]]

\* The output buffer after the bytes `vals` were written from position pos on.
Written(out, pos, vals) ==
    [j \in 1..Len(out) |-> IF pos < j /\ j <= pos + Len(vals) THEN vals[j - pos] ELSE out[j]]

\* The body of uncompress2's loop, `while i < data.len()`, with the control
\* byte at bytes[st.i] and current_pos_in_output = st.written.
Uncompress2Body(bytes, st) ==
    IF st.status # "run" \/ st.i > Len(bytes)
    THEN st
    ELSE LET i == st.i
             pos == st.written
             n == CountBits(bytes[i])
             Lit(count) == [k \in 1..count |-> ReadByte(bytes, i + k)]
             Rep(count) == [k \in 1..count |-> ReadByte(bytes, i + 1)]
             litFails == LiteralFails(bytes, i, n, pos, st.out)
             repFails == RepeatFails(n, pos, st.out)
         IN  IF ModeBit(bytes[i]) # 0
             THEN IF litFails = {}
                  THEN Decoding(i + n + 1, Written(st.out, pos, Lit(n)), pos + n, i + n)
                  ELSE LET k == First(litFails)
                       IN  IF ~InBounds(bytes, i + k)
                           THEN DecodePanic(i, "input", i + k - 1,
                                            Written(st.out, pos, Lit(k - 1)))
                           ELSE DecodePanic(i, "output", i + k,
                                            Written(st.out, pos, Lit(k - 1)))
             ELSE \* i += 1; let next = data[i]
                  IF ~InBounds(bytes, i + 1)
                  THEN DecodePanic(i, "input", i, st.out)
                  ELSE IF repFails = {}
                       THEN Decoding(i + 2, Written(st.out, pos, Rep(n)), pos + n, i + 1)
                       ELSE DecodePanic(i, "output", i + 1,
                                        Written(st.out, pos, Rep(First(repFails) - 1)))

\* n iterations of uncompress2's loop.
RECURSIVE Uncompress2Loop(_, _, _)
Uncompress2Loop(bytes, st, n) ==
    IF n = 0 \/ st.status # "run" \/ st.i > Len(bytes)
    THEN st
    ELSE IF n = 1
         THEN Uncompress2Body(bytes, st)
         ELSE Uncompress2Loop(bytes, Uncompress2Loop(bytes, st, n \div 2), n - n \div 2)

uncompress2(bytes, output) ==
    Returned(Uncompress2Loop(bytes, Decoding(1, output, 0, 0), Len(bytes)))

(***************************************************************************)
(* The codec's callers: compress a byte sequence, then decode the stream   *)
(* with uncompress and with uncompress2.                                   *)
(***************************************************************************)
\* The lengths of the short segments of an input: 1..SmallLen.
SmallLen == 2

\* The long segments are RunCap .. RunCap + 1 + OverCap bytes long: from one
\* byte under the most a control byte can count to OverCap bytes over it.
OverCap == 2

\* Every byte sequence of at most ShortMax bytes is an input; the inputs of
\* tests::test_compress are among them.
ShortMax == 5

\* Every decoder input of at most MaxStream bytes is tried.
MaxStream == 4

\* The output buffers handed to uncompress2 are 0..MaxOut bytes long.
MaxOut == 4

CodecVals == {0, 1, 255}

\* The bytes of the decoder inputs: repeat-mode and literal-mode control
\* bytes with the counts 0, 1 and 2.
StreamBytes == {0, 1, 2, 128, 129, 130}

Run(v, n) == [k \in 1..n |-> v]

Ramp(v, n) == [k \in 1..n |-> (v + k - 1) % 256]

SegLens == (1..SmallLen) \cup (RunCap..(RunCap + 1 + OverCap))

Segments ==
    {Run(v, n) : v \in CodecVals, n \in SegLens}
        \cup {Ramp(v, n) : v \in CodecVals, n \in SegLens}

SeqsUpTo(S, n) == UNION {[1..k -> S] : k \in 0..n}

\* The inputs of compress: the short sequences, and one or two segments (a
\* run of one value, or a stretch of pairwise different bytes).
CodecInputs ==
    SeqsUpTo(CodecVals, ShortMax) \cup Segments
        \cup {a \o b : a \in Segments, b \in Segments}

\* An output buffer of n bytes, as the caller left it.
Buffer(n) == [k \in 1..n |-> 170]

InitCodec ==
    /\ pc = "input"
    /\ data \in CodecInputs
    /\ stream = <<>>
    /\ dec = None
    /\ dec2 = None
    /\ outbuf = Buffer(Len(data))
    /\ IdleDiff /\ IdleFrame /\ IdleSel /\ IdlePipe

InitDecode ==
    /\ pc = "encoded"
    /\ data = <<>>
    /\ stream \in SeqsUpTo(StreamBytes, MaxStream)
    /\ dec = None
    /\ dec2 = None
    /\ outbuf \in {Buffer(n) : n \in 0..MaxOut}
    /\ IdleDiff /\ IdleFrame /\ IdleSel /\ IdlePipe

Compress ==
    /\ pc = "input"
    /\ stream' = compress(data)
    /\ pc' = "encoded"
    /\ UNCHANGED <<data, dec, outbuf, dec2, diffVars, frameVars, selVars, pipeVars>>

Uncompress ==
    /\ pc = "encoded"
    /\ dec = None
    /\ dec' = uncompress(stream)
    /\ UNCHANGED <<pc, data, stream, outbuf, dec2, diffVars, frameVars, selVars, pipeVars>>

Uncompress2 ==
    /\ pc = "encoded"
    /\ dec2 = None
    /\ dec2' = uncompress2(stream, outbuf)
    /\ UNCHANGED <<pc, data, stream, dec, outbuf, diffVars, frameVars, selVars, pipeVars>>

NextCodec == Compress \/ Uncompress \/ Uncompress2

SpecCodec == InitCodec /\ [][NextCodec]_vars

NextDecode == Uncompress \/ Uncompress2

SpecDecode == InitDecode /\ [][NextDecode]_vars

(***************************************************************************)
(* Claims about the codec                                                  *)
(***************************************************************************)
\* Whether bytes holds a run of more than n equal bytes, and whether it
\* holds a stretch of more than n bytes each different from the one before.
HasRunOver(bytes, n) ==
    \E p \in 1..(Len(bytes) - n) : \A k \in 1..n : bytes[p + k] = bytes[p]

HasStretchOver(bytes, n) ==
    \E p \in 1..(Len(bytes) - n) : \A k \in 1..n : bytes[p + k] # bytes[p + k - 1]

\* C1: codec round-trip.  For every byte sequence b, the empty one, a single
\* byte, runs of more than 127 equal bytes and stretches of more than 127
\* pairwise different bytes included, uncompress(compress(b)) returns b.
C1_RoundTrip ==
    (pc = "encoded" /\ dec # None) => (IsOk(dec) /\ dec.out = data)

\* C1's case: a decoded input that holds both a run and a stretch of more
\* than 127 bytes.
C1_Witness ==
    /\ pc = "encoded"
    /\ IsOk(dec)
    /\ HasRunOver(data, 127)
    /\ HasStretchOver(data, 127)

RefRunLen(bytes, p) ==
    LET Ends(n) == n = 127 \/ p + n > Len(bytes) \/ bytes[p + n] # bytes[p]
    IN  CHOOSE n \in 1..127 : Ends(n) /\ \A m \in 1..(n - 1) : ~Ends(m)

\* The group that starts at p: the runs of length 1 from p on, 127 of them
\* at most.  A run that starts at q has length 1 when the byte after q
\* differs or q is the last byte.
RefGroupLen(bytes, p) ==
    LET Single(q) == q = Len(bytes) \/ bytes[q + 1] # bytes[q]
        Ends(k) == k = 127 \/ p + k > Len(bytes) \/ ~Single(p + k)
    IN  CHOOSE k \in 1..127 : Ends(k) /\ \A m \in 1..(k - 1) : ~Ends(m)

\* The records of bytes from p on: [len, byte] for a run of 2 or more,
\* [0x80 | k, the k bytes] for a group of k runs of length 1.
RECURSIVE RefEncode(_, _)
RefEncode(bytes, p) ==
    IF p > Len(bytes)
    THEN <<>>
    ELSE LET n == RefRunLen(bytes, p)
             k == RefGroupLen(bytes, p)
         IN  IF n >= 2
             THEN <<n, bytes[p]>> \o RefEncode(bytes, p + n)
             ELSE <<128 + k>> \o SubSeq(bytes, p, p + k - 1) \o RefEncode(bytes, p + k)

\* The index of each control byte of a well-formed stream.
RECURSIVE ControlBytes(_, _)
ControlBytes(bytes, i) ==
    IF i > Len(bytes)
    THEN {}
    ELSE {i} \cup ControlBytes(bytes, i + 1 + (IF bytes[i] >= 128 THEN bytes[i] - 128 ELSE 1))

Payload(ctl) == IF ctl >= 128 THEN ctl - 128 ELSE 1

Decoded(ctl) == IF ctl >= 128 THEN ctl - 128 ELSE ctl

\* The records of a stream: the index of each record's control byte, in
\* order, up to the first record that demands more payload than remains.
RECURSIVE Records(_, _)
Records(bytes, i) ==
    IF i > Len(bytes)
    THEN <<>>
    ELSE IF i + Payload(bytes[i]) > Len(bytes)
         THEN <<i>>
         ELSE <<i>> \o Records(bytes, i + Payload(bytes[i]) + 1)

\* The control byte of the first truncated record, 0 when there is none.
FirstTruncated(bytes) ==
    LET recs == Records(bytes, 1)
        last == recs[Len(recs)]
    IN  IF recs # <<>> /\ last + Payload(bytes[last]) > Len(bytes) THEN last ELSE 0

\* The number of bytes the records before the one at `stop` decode to.
RECURSIVE DecodedBefore(_, _, _)
DecodedBefore(bytes, i, stop) ==
    IF i >= stop
    THEN 0
    ELSE Decoded(bytes[i]) + DecodedBefore(bytes, i + Payload(bytes[i]) + 1, stop)

\* C10: decode-stream truncation.  On a stream with a record that demands
\* more payload than remains, uncompress and uncompress2 panic at that
\* record: neither returns normally, neither reads an index beyond the end
\* of the input.  (uncompress2 panics at an earlier record when the output
\* buffer is too short for the records before the truncated one.)
C10_TruncatedStreamPanics ==
    LET t == FirstTruncated(stream)
    IN  (pc = "encoded" /\ t # 0) =>
            /\ dec # None =>
                   /\ IsPanic(dec)
                   /\ dec.at = t
                   /\ dec.maxRead <= Len(stream)
            /\ dec2 # None =>
                   /\ IsPanic(dec2)
                   /\ dec2.at <= t
                   /\ dec2.cause = "input" => dec2.at = t
                   /\ Len(outbuf) >= DecodedBefore(stream, 1, t) => dec2.at = t
                   /\ dec2.maxRead <= Len(stream)

\* C10's case: both decoders have run on a stream whose second record is a
\* literal-mode record with less payload than its count.
C10_Witness ==
    /\ pc = "encoded"
    /\ FirstTruncated(stream) = 3
    /\ ModeBit(stream[3]) = 1
    /\ Len(stream) > 3
    /\ IsPanic(dec)
    /\ IsPanic(dec2)
    /\ dec2.cause = "input"

\* C13: decoder equivalence.  On a stream on which uncompress returns r,
\* uncompress2 with an output buffer of len(r) bytes or more returns
\* normally, has written exactly r into output[0..len(r)] and has left the
\* rest of the buffer as it was; on a stream on which uncompress fails,
\* uncompress2 fails too.
C13_DecoderEquivalence ==
    (pc = "encoded" /\ dec # None /\ dec2 # None) =>
        /\ (IsOk(dec) /\ Len(outbuf) >= Len(dec.out)) =>
               /\ IsOk(dec2)
               /\ Len(dec2.out) = Len(outbuf)
               /\ dec2.written = Len(dec.out)
               /\ \A j \in 1..Len(outbuf) :
                      dec2.out[j] = IF j <= Len(dec.out) THEN dec.out[j] ELSE outbuf[j]
        /\ IsPanic(dec) => IsPanic(dec2)

\* C13's case: both decoders have run on a repeat-mode record followed by a
\* literal-mode record, uncompress2 with a buffer one byte longer than the
\* result.
C13_Witness ==
    /\ pc = "encoded"
    /\ stream = <<2, 1, 129, 0>>
    /\ IsOk(dec) /\ dec.out = <<1, 1, 0>>
    /\ IsOk(dec2) /\ dec2.out = <<1, 1, 0, 170>>

(***************************************************************************)
(* diff and undiff (src/src/lib.rs)                                        *)
(***************************************************************************)
Min(a, b) == IF a <= b THEN a ELSE b

\* base.iter().zip(other).map(|(base, &other)| base.wrapping_sub(other)):
\* zip ends with the shorter of the two.
diff(b, o) == [i \in 1..Min(Len(b), Len(o)) |-> WrappingSub(b[i], o[i])]

\* for i in 0..base.len() { other[i] = base[i].wrapping_sub(other[i]) }, in
\* place on buf: other[i] panics at the first i past the end of buf, and
\* the bytes of buf past the end of base are left as they were.
undiff(b, buf) ==
    LET done == [i \in 1..Len(buf) |->
                    IF i <= Len(b) THEN WrappingSub(b[i], buf[i]) ELSE buf[i]]
    IN  IF Len(b) > Len(buf)
        THEN [status |-> "panic", out |-> done]
        ELSE Ok(done)

\* The arrays are at most MaxDiffLen bytes long.
MaxDiffLen == 2

DiffBytes == {0, 1, 128, 255}

InitDiff ==
    /\ pc = "input"
    /\ base \in SeqsUpTo(DiffBytes, MaxDiffLen)
    /\ other \in SeqsUpTo(DiffBytes, MaxDiffLen)
    /\ delta = None
    /\ restored = None
    /\ IdleCodec /\ IdleFrame /\ IdleSel /\ IdlePipe

\* let delta = diff(&base, &other)
Diff ==
    /\ pc = "input"
    /\ delta' = Ok(diff(base, other))
    /\ pc' = "diffed"
    /\ UNCHANGED <<base, other, restored, codecVars, frameVars, selVars, pipeVars>>

\* undiff(&base, &mut delta)
Undiff ==
    /\ pc = "diffed"
    /\ restored' = undiff(base, delta.out)
    /\ pc' = "undiffed"
    /\ UNCHANGED <<base, other, delta, codecVars, frameVars, selVars, pipeVars>>

\* diff(&base, &delta), as in tests::test_diff
DiffAgain ==
    /\ pc = "diffed"
    /\ restored' = Ok(diff(base, delta.out))
    /\ pc' = "rediffed"
    /\ UNCHANGED <<base, other, delta, codecVars, frameVars, selVars, pipeVars>>

\* undiff(&base, &mut other), on the caller's two arrays as they are
UndiffInput ==
    /\ pc = "input"
    /\ restored' = undiff(base, other)
    /\ pc' = "undiffedInput"
    /\ UNCHANGED <<base, other, delta, codecVars, frameVars, selVars, pipeVars>>

NextDiff == Diff \/ Undiff \/ DiffAgain \/ UndiffInput

SpecDiff == InitDiff /\ [][NextDiff]_vars

\* C2: diff invertibility.  For base and other of equal length, undiff in
\* place on diff(base, other) yields other, and so does
\* diff(base, diff(base, other)); every element of a diff is
\* (base[i] - x[i]) mod 256.
C2_DiffInvertible ==
    Len(base) = Len(other) =>
        /\ pc \in {"diffed", "undiffed", "rediffed"} =>
               /\ Len(delta.out) = Len(base)
               /\ \A i \in 1..Len(base) : delta.out[i] = (base[i] - other[i]) % 256
        /\ pc = "undiffed" => (IsOk(restored) /\ restored.out = other)
        /\ pc = "rediffed" => restored.out = other
        /\ pc = "undiffedInput" =>
               /\ IsOk(restored)
               /\ \A i \in 1..Len(base) : restored.out[i] = (base[i] - other[i]) % 256

\* C2's case: a diff that wrapped below zero has been undone in place.
C2_Witness ==
    /\ pc = "undiffed"
    /\ Len(base) = Len(other)
    /\ \E i \in 1..Len(base) : base[i] < other[i]
    /\ restored.out = other

\* C7: shape mismatch.  When base and other differ in length, diff and
\* undiff report an error at once: neither returns a result cut to the
\* shorter length, nor leaves part of the longer array untransformed.
C7_MismatchReported ==
    Len(base) # Len(other) =>
        /\ pc = "diffed" => IsPanic(delta)
        /\ pc = "undiffedInput" => IsPanic(restored)

(***************************************************************************)
(* Frame (src/src/frame.rs)                                                *)
(***************************************************************************)
\* (b >> r) & 1
Bit(b, r) == (b \div (2 ^ r)) % 2

FramePanic == [status |-> "panic"]

\* Frame::height and Frame::width
Frame_height(m) == Len(m)

Frame_width(m) == Len(m[1])

\* Frame::new: the length check is switched off (`if false && ..`).  For
\* the j-th byte, frame.chunks(width) gives the band (j - 1) / width and the
\* column (j - 1) % width, and bit r goes to internal[band * 8 + r][column],
\* which panics for a row that is not below height.  chunks(0) panics.
Frame_new(width, height, bytes) ==
    IF width = 0 \/ \E j \in 1..Len(bytes) : ((j - 1) \div width) * 8 + 8 > height
    THEN FramePanic
    ELSE Ok([y \in 1..height |->
                [x \in 1..width |->
                    LET j == ((y - 1) \div 8) * width + x
                    IN  IF j <= Len(bytes) THEN Bit(bytes[j], (y - 1) % 8) ELSE 0]])

\* The byte Frame::output builds for the band starting at row h (0-based)
\* and the column x: frame[h][x] | frame[h + 1][x] << 1 | .. | frame[h + 7][x] << 7.
\* The pixels are 0 or 1, so the bits do not overlap.
PackByte(m, h, x) ==
    m[h + 1][x] + m[h + 2][x] * 2 + m[h + 3][x] * 4 + m[h + 4][x] * 8
        + m[h + 5][x] * 16 + m[h + 6][x] * 32 + m[h + 7][x] * 64 + m[h + 8][x] * 128

\* Frame::output without the truncation: every byte of every band.
KeepTrailingZeros(res) == res

\* if let Some(i) = res.iter().rposition(|x| *x != 0) { res.truncate(i + 1) }
StripTrailingZeros(res) ==
    LET nonzero == {i \in 1..Len(res) : res[i] # 0}
    IN  IF nonzero # {}
        THEN SubSeq(res, 1, CHOOSE i \in nonzero : \A k \in nonzero : k <= i)
        ELSE res

\* Frame::output: one band per step of (0..height).step_by(8), the columns
\* of a band in order.  frame[0] panics on a frame without rows, and
\* frame[h + r] panics in a band that reaches below the last row.
Frame_output(m) ==
    IF Frame_height(m) = 0
    THEN FramePanic
    ELSE LET width == Frame_width(m)
             bands == (Frame_height(m) + 7) \div 8
         IN  IF width > 0 /\ bands * 8 > Frame_height(m)
             THEN FramePanic
             ELSE Ok(StripTrailingZeros(
                      [j \in 1..(bands * width) |->
                          PackByte(m, ((j - 1) \div width) * 8, ((j - 1) % width) + 1)]))

\* The sum of the pixel (y, x) over the first k frames: v[y][x] += ..
RECURSIVE PixelSum(_, _, _, _)
PixelSum(fs, k, y, x) == IF k = 0 THEN 0 ELSE PixelSum(fs, k - 1, y, x) + fs[k][y][x]

\* Frame::create_from_multiple_frame: a pixel is set when more than
\* frames.len() as u8 / 2 of the frames set it.  frames[0] panics on an
\* empty slice; frames of different dimensions are an Err.
Frame_create_from_multiple_frame(fs) ==
    IF fs = <<>>
    THEN FramePanic
    ELSE IF \E k \in 1..(Len(fs) - 1) :
                Frame_width(fs[k]) # Frame_width(fs[k + 1]) \/ Frame_height(fs[k]) # Frame_height(fs[k + 1])
         THEN [status |-> "err"]
         ELSE Ok([y \in 1..Frame_height(fs[1]) |->
                     [x \in 1..Frame_width(fs[1]) |->
                         IF PixelSum(fs, Len(fs), y, x) > AsU8(Len(fs)) \div 2
                         THEN 1
                         ELSE 0]])

(***************************************************************************)
(* The packer's callers: pack a pixel matrix, then unpack the bytes.       *)
(***************************************************************************)
\* The matrices are 1..MaxWidth pixels wide.
MaxWidth == 2

\* The matrices are 1..8 * MaxBands + 1 pixels high.
MaxBands == 2

\* A column of a matrix follows one of these patterns.
Patterns == {"zero", "one", "top", "bottom", "even"}

\* The pixel of row y (1-based) of a column of h pixels.
Pixel(p, y, h) ==
    CASE p = "zero" -> 0
      [] p = "one" -> 1
      [] p = "top" -> IF y = 1 THEN 1 ELSE 0
      [] p = "bottom" -> IF y = h THEN 1 ELSE 0
      [] p = "even" -> y % 2

Matrices(w, h) ==
    {[y \in 1..h |-> [x \in 1..w |-> Pixel(cols[x], y, h)]] : cols \in [1..w -> Patterns]}

InitFrame ==
    /\ pc = "input"
    /\ \E w \in 1..MaxWidth, h \in 1..(8 * MaxBands + 1) : matrix \in Matrices(w, h)
    /\ packed = None
    /\ frame2 = None
    /\ IdleUnpack
    /\ IdleCodec /\ IdleDiff /\ IdleSel /\ IdlePipe

\* let packed = frame.output()
Pack ==
    /\ pc = "input"
    /\ packed' = Frame_output(matrix)
    /\ pc' = IF IsOk(packed') THEN "packed" ELSE "panic"
    /\ UNCHANGED <<matrix, frame2, given, built, repacked, codecVars, diffVars, selVars, pipeVars>>

\* Frame::new(width, height, &packed)
Unpack ==
    /\ pc = "packed"
    /\ frame2' = Frame_new(Frame_width(matrix), Frame_height(matrix), packed.out)
    /\ pc' = "unpacked"
    /\ UNCHANGED <<matrix, packed, given, built, repacked, codecVars, diffVars, selVars, pipeVars>>

NextFrame == Pack \/ Unpack

SpecFrame == InitFrame /\ [][NextFrame]_vars

\* C3: packer round-trip.  For every 0/1 matrix m of width >= 1 and
\* height >= 1, heights that are no multiple of 8 included,
\* Frame::new(width, height, m.output()) succeeds and its matrix is m.
C3_PackerRoundTrip ==
    /\ pc # "panic"
    /\ pc = "unpacked" => (IsOk(frame2) /\ frame2.out = matrix)

\* C8: trailing-zero stripping.  The array Frame::output returns is empty or
\* ends in a non-zero byte (an all-zero matrix packs to the empty array),
\* and is at most ceil(height / 8) * width bytes long.
C8_NoTrailingZero ==
    pc \in {"packed", "unpacked"} =>
        /\ packed.out = <<>> \/ packed.out[Len(packed.out)] # 0
        /\ Len(packed.out) <= ((Frame_height(matrix) + 7) \div 8) * Frame_width(matrix)

(***************************************************************************)
(* The packer's callers, the other way round: unpack a packed array, then  *)
(* pack the frame again (tests::test_output).                              *)
(***************************************************************************)
\* The bytes of the packed arrays: between them 45 (0b0010_1101) and 210
\* (0b1101_0010) set every bit once, and neither reads the same backwards.
PackedBytes == {0, 45, 210}

\* The heights: the multiples of 8 up to 8 * MaxBands, and the heights 4
\* rows short of each.
PackedHeights == {8 * k : k \in 1..MaxBands} \cup {8 * k - 4 : k \in 1..MaxBands}

\* The arrays given for a width w and a height h: up to one byte more than
\* the whole bands of the frame hold.
PackedArrays(w, h) == SeqsUpTo(PackedBytes, w * (h \div 8) + 1)

InitUnpack ==
    /\ pc = "given"
    /\ \E w \in 1..MaxWidth, h \in PackedHeights :
           \E b \in PackedArrays(w, h) : given = [width |-> w, height |-> h, bytes |-> b]
    /\ built = None
    /\ repacked = None
    /\ matrix = <<>> /\ packed = None /\ frame2 = None
    /\ IdleCodec /\ IdleDiff /\ IdleSel /\ IdlePipe

\* let frame = Frame::new(width, height, &bytes).unwrap()
New ==
    /\ pc = "given"
    /\ built' = Frame_new(given.width, given.height, given.bytes)
    /\ pc' = IF IsOk(built') THEN "built" ELSE "panic"
    /\ UNCHANGED <<matrix, packed, frame2, given, repacked, codecVars, diffVars, selVars, pipeVars>>

\* frame.output()
Output ==
    /\ pc = "built"
    /\ repacked' = Frame_output(built.out)
    /\ pc' = "repacked"
    /\ UNCHANGED <<matrix, packed, frame2, given, built, codecVars, diffVars, selVars, pipeVars>>

NextUnpack == New \/ Output

SpecUnpack == InitUnpack /\ [][NextUnpack]_vars

\* The precondition of C12: a height that is a positive multiple of 8, and
\* an array of 1 .. w * h / 8 bytes whose last byte is not 0.
WellPacked(g) ==
    /\ g.width >= 1
    /\ g.height >= 8 /\ g.height % 8 = 0
    /\ Len(g.bytes) \in 1..((g.width * g.height) \div 8)
    /\ g.bytes[Len(g.bytes)] # 0

\* C12: unpack-then-pack identity.  For a width w >= 1, a height h that is
\* a positive multiple of 8 and an array b of 1 .. w * h / 8 bytes whose
\* last byte is not 0, Frame::new(w, h, b) succeeds and the output of the
\* frame is b: the zeros that were cut from the end are not added again.
C12_UnpackPackIdentity ==
    (pc # "given" /\ WellPacked(given)) =>
        /\ IsOk(built)
        /\ pc = "repacked" => (IsOk(repacked) /\ repacked.out = given.bytes)

\* C12's case: an array shorter than the frame, with a zero byte inside,
\* has been unpacked and packed again.
C12_Witness ==
    /\ pc = "repacked"
    /\ WellPacked(given)
    /\ given.width = 2 /\ given.height = 16
    /\ given.bytes = <<45, 0, 210>>
    /\ IsOk(repacked)

(***************************************************************************)
(* generate_base_frame (src/src/base_frame.rs)                             *)
(***************************************************************************)
\* generate_from_base: compress(&diff(&base, &other))
generate_from_base(b, o) == compress(diff(b, o))

\* The sum of the first k elements of a sequence of numbers.
RECURSIVE SumTo(_, _)
SumTo(sizes, k) == IF k = 0 THEN 0 ELSE SumTo(sizes, k - 1) + sizes[k]

\* compute_size_from_base: frames.iter().map(|frame| .. .len()).sum()
compute_size_from_base(b, fs) ==
    SumTo([k \in 1..Len(fs) |-> Len(generate_from_base(b, fs[k]))], Len(fs))

\* The fold below keeping the later of two equal keys, as max_by_key does.
RECURSIVE MinByKeyLastFrom(_, _, _)
MinByKeyLastFrom(sizes, j, best) ==
    IF j > Len(sizes)
    THEN best
    ELSE MinByKeyLastFrom(sizes, j + 1, IF sizes[j] <= sizes[best] THEN j ELSE best)

\* Iterator::min_by_key's fold from element j on, `best` being the index
\* kept so far: the later element replaces it only when its key is
\* strictly smaller, so that of equal minima the first is returned.
RECURSIVE MinByKeyFrom(_, _, _)
MinByKeyFrom(sizes, j, best) ==
    IF j > Len(sizes)
    THEN best
    ELSE MinByKeyFrom(sizes, j + 1, IF sizes[j] < sizes[best] THEN j ELSE best)

\* generate_base_frame: between[0] panics on an empty corpus, and so does
\* the unwrap of min_by_key's None.  The base_frame vector of the first
\* loop is only printed.
generate_base_frame(between) ==
    IF between = <<>>
    THEN [status |-> "panic"]
    ELSE LET sizes == [i \in 1..Len(between) |-> compute_size_from_base(between[i], between)]
             idx == MinByKeyFrom(sizes, 2, 1)
         IN  [status |-> "ok", idx |-> idx, out |-> between[idx]]

(***************************************************************************)
(* find_suboptimal_base_frame (src/src/lib.rs)                             *)
(***************************************************************************)
\* The map the fold builds for the byte position idx: each value found there
\* with the number of frames that hold it.
Occurrences(fs, idx) ==
    [v \in {fs[k][idx] : k \in 1..Len(fs)} |->
        Cardinality({k \in 1..Len(fs) : fs[k][idx] = v})]

\* Iterator::max_by_key's fold over the keys from the j-th on: the later
\* element replaces the one kept unless that one's count is strictly
\* greater, so that of equal maxima the last is returned.
RECURSIVE MaxByKeyFrom(_, _, _, _)
MaxByKeyFrom(keys, counts, j, best) ==
    IF j > Len(keys)
    THEN best
    ELSE MaxByKeyFrom(keys, counts, j + 1,
                      IF counts[best] > counts[keys[j]] THEN best ELSE keys[j])

\* The orders in which a HashMap may iterate over keys among S: the order
\* follows the keys' hashes under the map's RandomState, whose seed is drawn
\* anew for every HashMap::new().
Orders(S) ==
    {p \in [1..Cardinality(S) -> S] : \A i, j \in 1..Cardinality(S) : i # j => p[i] # p[j]}

\* The keys of a map in the order its iterator yields them.
IterationOrder(counts, order) == SelectSeq(order, LAMBDA v : v \in DOMAIN counts)

\* find_suboptimal_base_frame, given the order in which each position's map
\* iterates.  frames[0] panics on an empty corpus.
find_suboptimal_base_frame(fs, orders) ==
    IF fs = <<>>
    THEN [status |-> "panic"]
    ELSE Ok([idx \in 1..Len(fs[1]) |->
                LET counts == Occurrences(fs, idx)
                    keys == IterationOrder(counts, orders[idx])
                IN  MaxByKeyFrom(keys, counts, 2, keys[1])])

(***************************************************************************)
(* The selectors' callers                                                  *)
(***************************************************************************)
\* A corpus holds 1..MaxCorpus frames.
MaxCorpus == 3

\* The frames of a corpus are 0..MaxFrameLen bytes long.
MaxFrameLen == 2

CorpusBytes == {0, 1}

Corpora ==
    UNION {[1..n -> [1..len -> CorpusBytes]] : n \in 1..MaxCorpus, len \in 0..MaxFrameLen}

InitBase ==
    /\ pc = "input"
    /\ corpus \in Corpora
    /\ chosen = None
    /\ vote1 = None
    /\ vote2 = None
    /\ IdleCodec /\ IdleDiff /\ IdleFrame /\ IdlePipe

\* let base = generate_base_frame(&corpus)
SelectBase ==
    /\ pc = "input"
    /\ chosen' = generate_base_frame(corpus)
    /\ pc' = "chosen"
    /\ UNCHANGED <<corpus, vote1, vote2, codecVars, diffVars, frameVars, pipeVars>>

NextBase == SelectBase

SpecBase == InitBase /\ [][NextBase]_vars

\* The first and the second run of find_suboptimal_base_frame(&corpus).
Vote1 ==
    /\ pc = "input"
    /\ vote1 = None
    /\ \E orders \in [1..Len(corpus[1]) -> Orders(CorpusBytes)] :
           vote1' = find_suboptimal_base_frame(corpus, orders)
    /\ UNCHANGED <<pc, corpus, chosen, vote2, codecVars, diffVars, frameVars, pipeVars>>

Vote2 ==
    /\ pc = "input"
    /\ vote2 = None
    /\ \E orders \in [1..Len(corpus[1]) -> Orders(CorpusBytes)] :
           vote2' = find_suboptimal_base_frame(corpus, orders)
    /\ UNCHANGED <<pc, corpus, chosen, vote1, codecVars, diffVars, frameVars, pipeVars>>

NextVote == Vote1 \/ Vote2

SpecVote == InitBase /\ [][NextVote]_vars

\* The total the claim speaks of: the sum over all frames f of the corpus
\* of len(compress(diff(corpus[i], f))).
RECURSIVE TotalTo(_, _, _)
TotalTo(fs, i, k) ==
    IF k = 0 THEN 0 ELSE TotalTo(fs, i, k - 1) + Len(compress(diff(fs[i], fs[k])))

Total(fs, i) == TotalTo(fs, i, Len(fs))

\* C4: minimal-total-size policy.  generate_base_frame returns the corpus
\* member at the smallest index that minimises the total, so the total of
\* its choice is at most the total of the first member.
C4_MinimalTotal ==
    pc = "chosen" =>
        /\ IsOk(chosen)
        /\ chosen.idx \in 1..Len(corpus)
        /\ chosen.out = corpus[chosen.idx]
        /\ \A j \in 1..Len(corpus) : Total(corpus, chosen.idx) <= Total(corpus, j)
        /\ \A j \in 1..(chosen.idx - 1) : Total(corpus, j) > Total(corpus, chosen.idx)
        /\ Total(corpus, chosen.idx) <= Total(corpus, 1)

\* C4's case: the first member is not minimal and two later members tie for
\* the minimum; the first of the two is chosen.
C4_Witness ==
    /\ pc = "chosen"
    /\ chosen.idx = 2
    /\ Len(corpus) = 3
    /\ Total(corpus, 2) < Total(corpus, 1)
    /\ Total(corpus, 3) = Total(corpus, 2)
    /\ corpus[3] # corpus[2]

\* C5: majority-vote determinism.  Two runs of find_suboptimal_base_frame
\* on the same corpus return the same array, also when two values tie for
\* the highest count at some position.
C5_VoteDeterministic ==
    (vote1 # None /\ vote2 # None) => vote1 = vote2

(***************************************************************************)
(* generate_c (src/src/bin/generate_c.rs) and the decoding of what it      *)
(* emits                                                                   *)
(***************************************************************************)
\* generate_c is given 1..MaxFrames frames.
MaxFrames == 2

\* What main emits: BASE_FRAME, and per frame the compressed diff against
\* it.  `outputs` are the frames' own packed arrays, which main keeps but
\* does not emit.  An unwrap of an Err and a panic of output() end main.
generate_c(fs) ==
    LET average == Frame_create_from_multiple_frame(fs)
        baseOut == Frame_output(average.out)
        outs == [k \in 1..Len(fs) |-> Frame_output(fs[k])]
    IN  IF ~IsOk(average) \/ ~IsOk(baseOut) \/ \E k \in 1..Len(fs) : ~IsOk(outs[k])
        THEN [status |-> "panic"]
        ELSE [status |-> "ok",
              base |-> baseOut.out,
              outputs |-> [k \in 1..Len(fs) |-> outs[k].out],
              compressed |->
                  [k \in 1..Len(fs) |-> compress(diff(baseOut.out, outs[k].out))]]

\* The frame a reader of the emitted arrays gets back:
\* undiff(base, uncompress(compressed)), in place on the decoded buffer.
Render(baseFrame, compressed) ==
    LET decoded == uncompress(compressed)
    IN  IF IsOk(decoded) THEN undiff(baseFrame, decoded.out) ELSE [status |-> "panic"]

\* The frames given to generate_c: all of one width and one height, the
\* height a multiple of 8.
FrameSets ==
    UNION {[1..n -> Matrices(w, 8 * b)] :
               n \in 1..MaxFrames, w \in 1..MaxWidth, b \in 1..MaxBands}

InitPipeline ==
    /\ pc = "input"
    /\ frames \in FrameSets
    /\ gen = None
    /\ shown = <<>>
    /\ IdleCodec /\ IdleDiff /\ IdleFrame /\ IdleSel

\* generate_c's main
Generate ==
    /\ pc = "input"
    /\ gen' = generate_c(frames)
    /\ shown' = [k \in 1..Len(frames) |-> None]
    /\ pc' = IF IsOk(gen') THEN "generated" ELSE "panic"
    /\ UNCHANGED <<frames, codecVars, diffVars, frameVars, selVars>>

\* The k-th emitted frame is decoded back.
Show(k) ==
    /\ pc = "generated"
    /\ shown[k] = None
    /\ shown' = [shown EXCEPT ![k] = Render(gen.base, gen.compressed[k])]
    /\ UNCHANGED <<pc, frames, gen, codecVars, diffVars, frameVars, selVars>>

ShowAny == \E k \in 1..Len(frames) : Show(k)

NextPipeline == Generate \/ ShowAny

SpecPipeline == InitPipeline /\ [][NextPipeline]_vars

\* C9: end-to-end reversibility of generate_c.  The base is as long as every
\* packed frame it is diffed against, so that
\* undiff(base, uncompress(compress(diff(base, frame_i)))) is frame_i for
\* every i: no byte of a frame is lost.
C9_PipelineReversible ==
    pc = "generated" =>
        \A k \in 1..Len(frames) :
            /\ Len(gen.base) = Len(gen.outputs[k])
            /\ shown[k] # None => (IsOk(shown[k]) /\ shown[k].out = gen.outputs[k])

=============================================================================
